---- MODULE Spec2Model ----
(***************************************************************************)
(* The Homepage plugin's settings tab (HomepageSettingTab) and its two     *)
(* suggestion providers (FileSuggest, WorkspaceSuggest).                   *)
(*                                                                         *)
(* The tab is modelled from the newer of the two revisions of settings.ts  *)
(* (src/unnamed/part_000: "Open on startup", headings, "Auto-scroll"); the *)
(* suggesters from src/src/settings.ts, the revision that still holds      *)
(* them.  Text is a sequence of one-character strings, so that the regular *)
(* expressions, normalizePath and toLowerCase are computed, not assumed.   *)
(***************************************************************************)
EXTENDS Integers, Sequences, FiniteSets, TLC

VARIABLES
    settings,    \* plugin.settings, the preferences record (this.settings)
    env,         \* what display() reads from the host: companion plugins
    panel,       \* containerEl: the rendered controls and display()'s locals
    pending,     \* change handlers suspended at "await saveSettings()"
    called,      \* last argument given to plugin.setIcon / plugin.setReversion
    events,      \* number of change events handled so far
    vault,       \* app.vault.getAllLoadedFiles()
    workspaces,  \* Object.keys(workspacePlugin.instance.workspaces)
    suggest      \* the last getSuggestions call: who, input, result

vars == <<settings, env, panel, pending, called, events, vault, workspaces, suggest>>

----------------------------------------------------------------------------
(* Bounds *)

MaxLen == 2          \* longest text typed into the Homepage field
MaxTextEvents == 2   \* change events per behaviour of SpecText
MaxEvents == 2       \* change events per behaviour of Spec
MaxPending == 2      \* handlers awaiting saveSettings at the same time
MaxQueryLen == 2     \* longest input given to getSuggestions

----------------------------------------------------------------------------
(* Text *)

Range(s) == {s[i] : i \in DOMAIN s}

SeqsUpTo(S, n) == UNION {[1..k -> S] : k \in 0..n}

\* JavaScript's null, as the argument or result of sanitiseNote.
Null == <<"null">>

\* The characters typed into the Homepage field: a space, a no-break space
\* (U+00A0), both slashes and a letter.
NBSP == "U+00A0"
TextChars == {" ", NBSP, "/", "\\", "a"}

Home == <<"H", "o", "m", "e">>

\* \s of a JavaScript regular expression (it includes U+00A0).
IsWhitespace(c) == c \in {" ", NBSP, "\t", "\n"}

\* value.match(/^\s*$/) !== null
MatchesBlank(value) == \A i \in DOMAIN value : IsWhitespace(value[i])

\* [\\/]
IsSlash(c) == c \in {"/", "\\"}

RECURSIVE SkipSlashes(_)
SkipSlashes(p) ==
    IF p # <<>> /\ IsSlash(Head(p)) THEN SkipSlashes(Tail(p)) ELSE p

\* path.replace(/([\\/])+/g, "/")
RECURSIVE CollapseSlashes(_)
CollapseSlashes(p) ==
    IF p = <<>> THEN <<>>
    ELSE IF IsSlash(Head(p)) THEN <<"/">> \o CollapseSlashes(SkipSlashes(p))
    ELSE <<Head(p)>> \o CollapseSlashes(Tail(p))

RECURSIVE StripTrailingSlashes(_)
StripTrailingSlashes(p) ==
    IF p # <<>> /\ p[Len(p)] = "/"
    THEN StripTrailingSlashes(SubSeq(p, 1, Len(p) - 1))
    ELSE p

RECURSIVE StripLeadingSlashes(_)
StripLeadingSlashes(p) ==
    IF p # <<>> /\ Head(p) = "/" THEN StripLeadingSlashes(Tail(p)) ELSE p

\* path.replace(/(^\/+|\/+$)/g, "")
StripSlashes(p) == StripTrailingSlashes(StripLeadingSlashes(p))

\* path.replace(/\u00A0|\u202F/g, " ")
ReplaceNbsp(p) == [i \in DOMAIN p |-> IF p[i] = NBSP THEN " " ELSE p[i]]

\* obsidian's normalizePath: slashes unified and collapsed, leading and
\* trailing slashes removed, the empty path becomes "/", no-break spaces
\* become spaces (Unicode NFC leaves every character of TextChars alone).
\* It does not trim whitespace.
normalizePath(path) ==
    LET stripped == StripSlashes(CollapseSlashes(path))
    IN  ReplaceNbsp(IF stripped = <<>> THEN <<"/">> ELSE stripped)

sanitiseNoteNoBlankCheck(value) ==
    IF value = Null THEN Null ELSE normalizePath(value)

sanitiseNoteRaw(value) ==
    IF value = Null \/ MatchesBlank(value) THEN Null ELSE value

\* HomepageSettingTab.sanitiseNote
sanitiseNote(value) ==
    IF value = Null \/ MatchesBlank(value) THEN Null ELSE normalizePath(value)

\* JavaScript's a || b on strings and null: null and "" are falsy.
OrElse(a, b) == IF a = Null \/ a = <<>> THEN b ELSE a

----------------------------------------------------------------------------
(* Settings *)

ModeValues == {"Replace all open notes", "Replace last note", "Keep open notes"}

ViewValues == {"Default view", "Reading view", "Editing view (Source)",
               "Editing view (Live Preview)"}

DEFAULT == [
    version |-> 2,
    defaultNote |-> Home,
    useMoment |-> FALSE,
    momentFormat |-> "YYYY-MM-DD",
    workspace |-> Home,
    workspaceEnabled |-> FALSE,
    openOnStartup |-> TRUE,
    hasRibbonIcon |-> TRUE,
    openMode |-> "Replace all open notes",
    manualOpenMode |-> "Keep open notes",
    view |-> "Default view",
    revertView |-> TRUE,
    refreshDataview |-> FALSE,
    autoCreate |-> TRUE,
    autoScroll |-> FALSE,
    pin |-> FALSE ]

Fields == DOMAIN DEFAULT

\* The class that marks a setting to be greyed out in workspace mode.
HIDDEN == "nv-workspace-hidden"

\* plugin.workspacesMode(): the Workspaces core plugin is enabled and the
\* user chose to open a workspace.
workspacesMode(s, e) == e.workspacePlugin /\ s.workspaceEnabled

----------------------------------------------------------------------------
(* The rendered panel *)

\* A Setting of the panel.  "classes" are settingEl's classes; "style"
\* is settingEl's style attribute, a list of declarations; "on", "text" and
\* "option" are the component's current value (a toggle's, a text field's, a
\* dropdown's or Moment field's); "callback" is what the change handler calls
\* after the save.
Control(name, kind, setting, callback) ==
    [name |-> name, kind |-> kind, setting |-> setting, callback |-> callback,
     classes |-> {}, style |-> <<>>, on |-> FALSE, text |-> <<>>, option |-> ""]

DisabledStyle == <<"opacity: .5", "pointer-events: none !important">>

\* disableSetting: setAttribute("style", ...) replaces the style attribute.
disableSetting(c) == [c EXCEPT !.style = DisabledStyle]

\* A setting is disabled when its style takes the pointer away from it.
Disabled(c) == "pointer-events: none !important" \in Range(c.style)

\* addHeading
addHeading(name) == [Control(name, "heading", "", "none") EXCEPT !.classes = {HIDDEN}]

\* addDropdown: the dropdown shows settings[setting] and is always HIDDEN.
addDropdown(name, setting, s) ==
    [Control(name, "dropdown", setting, "none") EXCEPT
        !.option = s[setting], !.classes = {HIDDEN}]

addToggleAllHidden(name, setting, callback, forWorkspaces, s) ==
    [Control(name, "toggle", setting, callback) EXCEPT
        !.on = s[setting], !.classes = {HIDDEN}]

\* addToggle: the toggle shows settings[setting]; it is HIDDEN unless it was
\* created with the workspaces flag.
addToggle(name, setting, callback, forWorkspaces, s) ==
    [Control(name, "toggle", setting, callback) EXCEPT
        !.on = s[setting], !.classes = IF forWorkspaces THEN {} ELSE {HIDDEN}]

showsMomentIgnoringWorkspaces(s, wsMode) == s.useMoment

\* display(): "only show the moment field if they're enabled and the
\* workspace isn't".
showsMoment(s, wsMode) == s.useMoment /\ ~wsMode

homepageFieldAlwaysNote(wsMode) == "defaultNote"

\* display(): const homepage = workspacesMode ? "workspace" : "defaultNote"
homepageField(wsMode) == IF wsMode THEN "workspace" ELSE "defaultNote"

\* display(): text.setValue(DEFAULT[homepage] == settings[homepage] ? "" : ...)
shownText(s, homepage) ==
    IF DEFAULT[homepage] = s[homepage] THEN <<>> ELSE s[homepage]

\* display(): the first Setting, the homepage input.
homepageControl(s, wsMode) ==
    IF showsMoment(s, wsMode)
    THEN [Control("Homepage format", "moment", "momentFormat", "none") EXCEPT
            !.option = s.momentFormat]
    ELSE [Control("Homepage", "text", homepageField(wsMode), "none") EXCEPT
            !.text = shownText(s, homepageField(wsMode))]

\* display(): the "Open on startup" toggle, disabled under Daily Notes'
\* autorun; the padding is appended to the style (cssText +=).
startupSetting(s, autorun) ==
    LET t == addToggle("Open on startup", "openOnStartup", "display", TRUE, s)
        d == IF autorun THEN disableSetting(t) ELSE t
    IN  [d EXCEPT !.style =
            d.style \o <<"padding-top: 30px", "border-top: none !important">>]

disablesOpeningIgnoringStartup(s, autorun) == autorun

\* display(): if (!this.settings.openOnStartup || dailynotesAutorun)
disablesOpening(s, autorun) == ~s.openOnStartup \/ autorun

\* display(): if (workspacesMode) ... forEach(this.disableSetting)
disablesHidden(wsMode) == wsMode

\* display(), from the empty container to the last line.
display(s, e) ==
    LET wsMode == workspacesMode(s, e)
        autorun == e.dailynotesAutorun
        built ==
            <<homepageControl(s, wsMode)>>
            \o <<addToggle("Use date formatting", "useMoment", "display", FALSE, s)>>
            \o (IF e.workspacePlugin
                THEN <<addToggle("Use workspaces", "workspaceEnabled", "display", TRUE, s)>>
                ELSE <<>>)
            \o <<startupSetting(s, autorun)>>
            \o <<addToggle("Use ribbon icon", "hasRibbonIcon", "setIcon", TRUE, s)>>
            \o <<addHeading("Vault environment")>>
            \o <<addDropdown("Opening method", "openMode", s)>>
            \o <<addDropdown("Manual opening method", "manualOpenMode", s)>>
            \o <<addToggle("Auto-create", "autoCreate", "none", FALSE, s)>>
            \o <<addToggle("Pin", "pin", "none", FALSE, s)>>
            \o <<addHeading("Pane")>>
            \o <<addDropdown("Homepage view", "view", s)>>
            \o <<addToggle("Revert view on close", "revertView", "setReversion", FALSE, s)>>
            \o <<addToggle("Auto-scroll", "autoScroll", "none", FALSE, s)>>
            \o (IF e.dataviewPlugin
                THEN <<addToggle("Refresh Dataview", "refreshDataview", "none", FALSE, s)>>
                ELSE <<>>)
        greyed == [i \in DOMAIN built |->
                    IF disablesHidden(wsMode) /\ HIDDEN \in built[i].classes
                    THEN disableSetting(built[i]) ELSE built[i]]
        final == [i \in DOMAIN greyed |->
                    IF greyed[i].name = "Opening method" /\ disablesOpening(s, autorun)
                    THEN disableSetting(greyed[i]) ELSE greyed[i]]
    IN  [workspacesMode |-> wsMode, dailynotesAutorun |-> autorun, controls |-> final]

\* The container before the first display().
EmptyPanel == [workspacesMode |-> FALSE, dailynotesAutorun |-> FALSE, controls |-> <<>>]

\* The positions of the rendered controls of a kind, or with a name.
OfKind(kind) == {i \in DOMAIN panel.controls : panel.controls[i].kind = kind}

Named(name) == {i \in DOMAIN panel.controls : panel.controls[i].name = name}

----------------------------------------------------------------------------
(* The host *)

\* What display() finds in the host: the Workspaces core plugin enabled
\* (plugin.workspacePlugin?.enabled), Daily Notes' "Open daily note on
\* startup" (getDailynotesAutorun) and the Dataview plugin (getDataviewPlugin).
Envs == [workspacePlugin : BOOLEAN, dailynotesAutorun : BOOLEAN, dataviewPlugin : BOOLEAN]

EnvFlags == {"workspacePlugin", "dailynotesAutorun", "dataviewPlugin"}

\* plugin.settings as loaded from the plugin's data: the defaults, or a record
\* an earlier session saved with "Use workspaces" on.
SavedSettings == {[DEFAULT EXCEPT !.workspaceEnabled = w] : w \in BOOLEAN}

\* saveSettings() is the host's asynchronous write of the whole record; the
\* writes in flight may complete in any order.
ResolvableSaves == DOMAIN pending

----------------------------------------------------------------------------
(* Change handlers.  Each runs to its "await this.plugin.saveSettings()" in  *)
(* one step and is resumed by SaveResolved.  A control takes change events   *)
(* while it is in the panel: a greyed-out control loses the pointer, not the *)
(* keyboard.                                                                 *)

\* A handler suspended at its await: the callback it will call and the value
\* it will pass.  Only a toggle has a callback; the others keep FALSE.
Suspended(c, value) == [setting |-> c.setting, callback |-> c.callback, value |-> value]

\* this.sanitiseNote(value) || DEFAULT[homepage]
storedText(value, homepage) == OrElse(sanitiseNote(value), DEFAULT[homepage])

\* The Homepage text field's onChange; homepage is the field captured when
\* the control was rendered.
TextChange(value) ==
    \E i \in OfKind("text") :
        LET c == panel.controls[i] IN
        /\ Len(pending) < MaxPending
        /\ settings' = [settings EXCEPT ![c.setting] = storedText(value, c.setting)]
        /\ panel' = [panel EXCEPT !.controls[i].text = value]
        /\ pending' = Append(pending, Suspended(c, FALSE))
        /\ events' = events + 1
        /\ UNCHANGED <<env, called, vault, workspaces, suggest>>

\* The Moment format field's onChange.
MomentChange(value) ==
    \E i \in OfKind("moment") :
        LET c == panel.controls[i] IN
        /\ Len(pending) < MaxPending
        /\ settings' = [settings EXCEPT !.momentFormat = value]
        /\ panel' = [panel EXCEPT !.controls[i].option = value]
        /\ pending' = Append(pending, Suspended(c, FALSE))
        /\ events' = events + 1
        /\ UNCHANGED <<env, called, vault, workspaces, suggest>>

\* The options addDropdown gives a dropdown: Object.values(source).
OptionsOf(setting) == IF setting = "view" THEN ViewValues ELSE ModeValues

\* A dropdown's onChange: another option was selected.
DropdownChange(i, option) ==
    LET c == panel.controls[i] IN
    /\ Len(pending) < MaxPending
    /\ option \in OptionsOf(c.setting) \ {c.option}
    /\ settings' = [settings EXCEPT ![c.setting] = option]
    /\ panel' = [panel EXCEPT !.controls[i].option = option]
    /\ pending' = Append(pending, Suspended(c, FALSE))
    /\ events' = events + 1
    /\ UNCHANGED <<env, called, vault, workspaces, suggest>>

\* A toggle's onChange, up to the await: the value is the toggle's new state.
ToggleChange(i) ==
    LET c == panel.controls[i]
        value == ~c.on
    IN
    /\ Len(pending) < MaxPending
    /\ settings' = [settings EXCEPT ![c.setting] = value]
    /\ panel' = [panel EXCEPT !.controls[i].on = value]
    /\ pending' = Append(pending, Suspended(c, value))
    /\ events' = events + 1
    /\ UNCHANGED <<env, called, vault, workspaces, suggest>>

RemoveAt(s, i) == SubSeq(s, 1, i - 1) \o SubSeq(s, i + 1, Len(s))

renderedAfterSaveNever(h, p, s, e) == p

\* "if (callback) callback(value)" for the callback (_) => this.display():
\* the panel after the handler h has finished.
renderedAfterSave(h, p, s, e) ==
    IF h.callback = "display" THEN display(s, e) ELSE p

\* The rest of a handler, once its save has completed: "if (callback)
\* callback(value)".  The callback is display(), plugin.setIcon(value),
\* plugin.setReversion(value), or absent.
SaveResolved(i) ==
    LET h == pending[i] IN
    /\ i \in ResolvableSaves
    /\ pending' = RemoveAt(pending, i)
    /\ panel' = renderedAfterSave(h, panel, settings, env)
    /\ called' = IF h.callback \in {"setIcon", "setReversion"}
                 THEN [called EXCEPT ![h.callback] = <<h.value>>]
                 ELSE called
    /\ UNCHANGED <<settings, env, events, vault, workspaces, suggest>>

\* The host shows the tab: display().
HostDisplay ==
    /\ panel' = display(settings, env)
    /\ UNCHANGED <<settings, env, pending, called, events, vault, workspaces, suggest>>

\* The user leaves the tab, switches a companion plugin or Daily Notes'
\* autorun on or off, and comes back: the host calls display() again.
HostChange ==
    \E f \in EnvFlags :
        /\ env' = [env EXCEPT ![f] = ~env[f]]
        /\ panel' = display(settings, env')
        /\ UNCHANGED <<settings, pending, called, events, vault, workspaces, suggest>>

----------------------------------------------------------------------------
(* Spec: the settings tab *)

SampleTexts == {<<>>, <<"a">>}

MomentFormats == {"YYYY-MM-DD", "[Home] DD"}

NoSuggest == [by |-> "none", input |-> <<>>, result |-> <<>>]

Init ==
    /\ settings \in SavedSettings
    /\ env \in Envs
    /\ panel = EmptyPanel
    /\ pending = <<>>
    /\ called = [setIcon |-> <<>>, setReversion |-> <<>>]
    /\ events = 0
    /\ vault = <<>>
    /\ workspaces = <<>>
    /\ suggest = NoSuggest

Next ==
    \/ HostDisplay
    \/ HostChange
    \/ \E i \in DOMAIN pending : SaveResolved(i)
    \/ events < MaxEvents /\ \E v \in SampleTexts : TextChange(v)
    \/ events < MaxEvents /\ \E v \in MomentFormats : MomentChange(v)
    \/ events < MaxEvents /\ \E i \in OfKind("toggle") : ToggleChange(i)
    \/ events < MaxEvents /\ \E i \in OfKind("dropdown") :
            \E o \in ModeValues \cup ViewValues : DropdownChange(i, o)

Spec == Init /\ [][Next]_vars

----------------------------------------------------------------------------
(* SpecText: the Homepage text field alone, with every short text typed *)

AllTexts == SeqsUpTo(TextChars, MaxLen) \cup {Null, Home, <<"/", "H", "o", "m", "e", "/">>}

InitText ==
    /\ settings \in SavedSettings
    /\ env = [workspacePlugin |-> TRUE, dailynotesAutorun |-> FALSE, dataviewPlugin |-> FALSE]
    /\ panel = EmptyPanel
    /\ pending = <<>>
    /\ called = [setIcon |-> <<>>, setReversion |-> <<>>]
    /\ events = 0
    /\ vault = <<>>
    /\ workspaces = <<>>
    /\ suggest = NoSuggest

NextText ==
    \/ HostDisplay
    \/ \E i \in DOMAIN pending : SaveResolved(i)
    \/ events < MaxTextEvents /\ \E v \in AllTexts : TextChange(v)

SpecText == InitText /\ [][NextText]_vars

----------------------------------------------------------------------------
(* The suggesters *)

\* String.prototype.toLowerCase, on the letters used here.
LowerOf(c) ==
    CASE c = "A" -> "a"
      [] c = "B" -> "b"
      [] c = "M" -> "m"
      [] OTHER -> c

toLowerCase(s) == [i \in DOMAIN s |-> LowerOf(s[i])]

\* obsidian's String.prototype.contains: s has sub as a substring.
contains(s, sub) ==
    \E k \in 0..(Len(s) - Len(sub)) : SubSeq(s, k + 1, k + Len(sub)) = sub

matchesFileCaseSensitive(file, inputStr) ==
    file.isTFile /\ file.extension = "md" /\ contains(file.path, inputStr)

\* FileSuggest.getSuggestions, the test of one file.
matchesFile(file, inputStr) ==
    /\ file.isTFile
    /\ file.extension = "md"
    /\ contains(toLowerCase(file.path), toLowerCase(inputStr))

\* WorkspaceSuggest.getSuggestions, the test of one workspace.
matchesWorkspace(workspace, inputStr) ==
    contains(toLowerCase(workspace), toLowerCase(inputStr))

\* abstractFiles.forEach(file => { if (...) files.push(file) }): the files
\* passing the test, in the vault's order.
RECURSIVE FilterFiles(_, _)
FilterFiles(files, inputStr) ==
    IF files = <<>> THEN <<>>
    ELSE (IF matchesFile(Head(files), inputStr) THEN <<Head(files)>> ELSE <<>>)
         \o FilterFiles(Tail(files), inputStr)

\* workspaces.filter(workspace => ...)
RECURSIVE FilterWorkspaces(_, _)
FilterWorkspaces(names, inputStr) ==
    IF names = <<>> THEN <<>>
    ELSE (IF matchesWorkspace(Head(names), inputStr) THEN <<Head(names)>> ELSE <<>>)
         \o FilterWorkspaces(Tail(names), inputStr)

\* FileSuggest.getSuggestions, called with the input typed into the field.
FileGetSuggestions ==
    /\ suggest.by = "none"
    /\ suggest' = [by |-> "FileSuggest", input |-> suggest.input,
                   result |-> FilterFiles(vault, suggest.input)]
    /\ UNCHANGED <<settings, env, panel, pending, called, events, vault, workspaces>>

\* WorkspaceSuggest.getSuggestions, called with the input typed into the field.
WorkspaceGetSuggestions ==
    /\ suggest.by = "none"
    /\ suggest' = [by |-> "WorkspaceSuggest", input |-> suggest.input,
                   result |-> FilterWorkspaces(workspaces, suggest.input)]
    /\ UNCHANGED <<settings, env, panel, pending, called, events, vault, workspaces>>

\* The files a vault may hold, in the order the host lists them: a folder,
\* a note in it, two notes at the root and a canvas.
SampleFiles == <<
    [path |-> <<"A">>, isTFile |-> FALSE, extension |-> ""],
    [path |-> <<"A", "/", "b", ".", "m", "d">>, isTFile |-> TRUE, extension |-> "md"],
    [path |-> <<"a", ".", "m", "d">>, isTFile |-> TRUE, extension |-> "md"],
    [path |-> <<"M", "b", ".", "m", "d">>, isTFile |-> TRUE, extension |-> "md"],
    [path |-> <<"B", ".", "c", "a", "n", "v", "a", "s">>, isTFile |-> TRUE,
     extension |-> "canvas"] >>

SampleWorkspaces == << <<"A", "b">>, <<"b", "a">>, <<"M">> >>

\* The elements of s at the positions in I, in s's order.
RECURSIVE Pick(_, _)
Pick(s, I) ==
    IF s = <<>> THEN <<>>
    ELSE (IF 1 \in I THEN <<Head(s)>> ELSE <<>>)
         \o Pick(Tail(s), {i - 1 : i \in I \ {1}})

QueryChars == {"a", "A", "b", "m", "/", "."}

Queries == SeqsUpTo(QueryChars, MaxQueryLen)

InitSuggest ==
    /\ settings = DEFAULT
    /\ env = [workspacePlugin |-> TRUE, dailynotesAutorun |-> FALSE, dataviewPlugin |-> FALSE]
    /\ panel = EmptyPanel
    /\ pending = <<>>
    /\ called = [setIcon |-> <<>>, setReversion |-> <<>>]
    /\ events = 0
    /\ vault \in {Pick(SampleFiles, I) : I \in SUBSET DOMAIN SampleFiles}
    /\ workspaces \in {Pick(SampleWorkspaces, I) : I \in SUBSET DOMAIN SampleWorkspaces}
    /\ suggest \in {[by |-> "none", input |-> q, result |-> <<>>] : q \in Queries}

NextSuggest ==
    \/ FileGetSuggestions
    \/ WorkspaceGetSuggestions

SpecSuggest == InitSuggest /\ [][NextSuggest]_vars

----------------------------------------------------------------------------
(* Properties *)

\* The rendered control with a name (there is one).
TheControl(name) == panel.controls[CHOOSE i \in Named(name) : TRUE]

\* The fields of the record a step changes.
Changed == {f \in Fields : settings'[f] # settings[f]}

\* A handler that ends in display() is still suspended.
RerenderPending == \E i \in DOMAIN pending : pending[i].callback = "display"

IsBlank(v) == v = Null \/ \A i \in DOMAIN v : v[i] \in {" ", NBSP}

\* The step is a change event of the Homepage text field i: its handler was
\* suspended and the field holds what was typed.
TextEdited(i) ==
    /\ i \in OfKind("text")
    /\ events' # events
    /\ pending'[Len(pending')].setting \in {"defaultNote", "workspace"}

\* C1: a change of the Homepage text field whose input is null, empty or
\* only whitespace stores the default, "Home", in the field the control is
\* bound to (defaultNote in note mode, workspace in workspace mode).
C1_BlankYieldsDefault ==
    [][\A i \in DOMAIN panel.controls :
        (TextEdited(i) /\ IsBlank(panel'.controls[i].text)) =>
            /\ settings'[panel.controls[i].setting] = Home
            /\ panel.controls[i].setting =
                 (IF panel.workspacesMode THEN "workspace" ELSE "defaultNote")]_vars

\* A blank text was typed in workspace mode and "Home" is stored.
C1_Witness ==
    /\ events > 0
    /\ panel.workspacesMode
    /\ \E i \in OfKind("text") :
        /\ panel.controls[i].text = <<" ", NBSP>>
        /\ panel.controls[i].setting = "workspace"
        /\ settings.workspace = Home

\* C5: a change of the Homepage text field whose input is not blank stores
\* normalizePath(input) in the bound field.
C5_NonBlankStoresNormalized ==
    [][\A i \in DOMAIN panel.controls :
        (TextEdited(i) /\ ~IsBlank(panel'.controls[i].text)) =>
            settings'[panel.controls[i].setting] =
                normalizePath(panel'.controls[i].text)]_vars

\* "\a" was typed: "a" is stored, neither the raw input nor the default.
C5_Witness ==
    /\ events > 0
    /\ \E i \in OfKind("text") :
        /\ panel.controls[i].text = <<"\\", "a">>
        /\ settings[panel.controls[i].setting] = <<"a">>

\* C10: the text display() puts into the Homepage field, fed back unchanged
\* through the change handler, stores the value that is stored already.
C10_RoundTrip ==
    \A i \in OfKind("text") :
        LET homepage == panel.controls[i].setting IN
        storedText(shownText(settings, homepage), homepage) = settings[homepage]

\* s has sub as a substring, letters compared without regard to case.
ContainsIgnoringCase(s, sub) ==
    \E k \in 0..(Len(s) - Len(sub)) :
        \A j \in 1..Len(sub) : LowerOf(s[k + j]) = LowerOf(sub[j])

\* The notes of the vault: the files with the extension md.
Notes == {f \in Range(vault) : f.isTFile /\ f.extension = "md"}

\* A note's name as the suggester shows it: its path without ".md".
NoteName(f) == SubSeq(f.path, 1, Len(f.path) - 3)

WorkspaceSuggestExact ==
    suggest.by = "WorkspaceSuggest" =>
        Range(suggest.result) =
            {w \in Range(workspaces) : ContainsIgnoringCase(w, suggest.input)}

\* C2, as amended: FileSuggest.getSuggestions returns exactly the notes whose
\* vault path (folders and the ".md" extension included) contains the input,
\* and WorkspaceSuggest.getSuggestions exactly the workspaces whose name
\* contains it, both compared in lower case.
C2_PathFilter ==
    /\ suggest.by = "FileSuggest" =>
        Range(suggest.result) =
            {f \in Notes : ContainsIgnoringCase(f.path, suggest.input)}
    /\ WorkspaceSuggestExact

\* C2, as claimed: FileSuggest.getSuggestions returns exactly the notes whose
\* name contains the input (and WorkspaceSuggest likewise).
C2_NameFilter ==
    /\ suggest.by = "FileSuggest" =>
        Range(suggest.result) =
            {f \in Notes : ContainsIgnoringCase(NoteName(f), suggest.input)}
    /\ WorkspaceSuggestExact

\* "mb" was typed: of three notes, FileSuggest returned Mb.md alone.
C2_Witness ==
    /\ suggest.by = "FileSuggest"
    /\ suggest.input = <<"m", "b">>
    /\ Cardinality(Notes) = 3
    /\ Len(suggest.result) = 1
    /\ suggest.result[1].path = <<"M", "b", ".", "m", "d">>

\* The homepage input the panel shows is the one display() renders for the
\* current settings and host.
ShowsCurrentInput ==
    LET ws == workspacesMode(settings, env)
        moment == settings.useMoment /\ ~ws
    IN  /\ Cardinality(OfKind("moment") \cup OfKind("text")) = 1
        /\ OfKind("moment") # {} <=> moment
        /\ \A i \in OfKind("moment") : panel.controls[i].setting = "momentFormat"
        /\ \A i \in OfKind("text") :
            panel.controls[i].setting = (IF ws THEN "workspace" ELSE "defaultNote")

\* C3: once the change handlers of "Use date formatting" and "Use workspaces"
\* have completed (none that ends in display() is suspended), the panel has
\* been rendered again and shows the homepage input of the current useMoment
\* and workspace mode.
C3_ToggleRerenders ==
    (panel.controls # <<>> /\ ~RerenderPending) => ShowsCurrentInput

\* "Use date formatting" was switched on, its handler has completed and the
\* Moment field is shown.
C3_Witness ==
    /\ events > 0
    /\ pending = <<>>
    /\ settings.useMoment
    /\ OfKind("moment") # {}

\* C4: a rendered panel holds exactly one homepage input.  The Moment field
\* is bound to momentFormat and is never there in workspace mode; the text
\* field is bound to workspace in workspace mode and to defaultNote outside
\* it.  With no display() outstanding, the mode is the current one and the
\* Moment field is there iff useMoment is set and workspace mode is off.
C4_ExclusiveInput ==
    panel.controls # <<>> =>
        /\ Cardinality(OfKind("moment") \cup OfKind("text")) = 1
        /\ \A i \in OfKind("moment") :
            ~panel.workspacesMode /\ panel.controls[i].setting = "momentFormat"
        /\ \A i \in OfKind("text") :
            panel.controls[i].setting =
                (IF panel.workspacesMode THEN "workspace" ELSE "defaultNote")
        /\ ~RerenderPending =>
            /\ panel.workspacesMode = workspacesMode(settings, env)
            /\ OfKind("text") = {} <=> (settings.useMoment /\ ~panel.workspacesMode)

\* Rendered in workspace mode with useMoment set: the text field, bound to
\* workspace, stands in the panel.
C4_Witness ==
    /\ panel.workspacesMode
    /\ settings.useMoment
    /\ settings.workspaceEnabled /\ env.workspacePlugin
    /\ ~RerenderPending
    /\ OfKind("moment") = {}
    /\ \E i \in OfKind("text") : panel.controls[i].setting = "workspace"

GreyedInWorkspaceMode ==
    {"Vault environment", "Pane", "Opening method", "Manual opening method",
     "Homepage view", "Use date formatting", "Auto-create", "Pin",
     "Revert view on close", "Auto-scroll", "Refresh Dataview"}

\* C7: in a panel rendered in workspace mode, the headings, the dropdowns
\* and the toggles created without the workspaces flag are disabled; "Use
\* workspaces" and the ribbon icon toggle never are; in a panel rendered
\* outside workspace mode none of the former is disabled, but "Opening
\* method" for the sake of openOnStartup or Daily Notes.
C7_WorkspaceGreying ==
    \A i \in DOMAIN panel.controls :
        LET c == panel.controls[i]
            ws == panel.workspacesMode
        IN
        /\ c.kind \in {"heading", "dropdown"} => c.name \in GreyedInWorkspaceMode
        /\ (ws /\ c.name \in GreyedInWorkspaceMode) => Disabled(c)
        /\ (~ws /\ c.name \in GreyedInWorkspaceMode \ {"Opening method"}) => ~Disabled(c)
        /\ (~ws /\ ~RerenderPending /\ c.name = "Opening method" /\ Disabled(c))
                => (~settings.openOnStartup \/ env.dailynotesAutorun)
        /\ c.name \in {"Use workspaces", "Use ribbon icon"} => ~Disabled(c)

\* Rendered in workspace mode with Dataview present: "Refresh Dataview" and
\* the heading "Pane" are disabled, "Use workspaces" is not.
C7_Witness ==
    /\ panel.workspacesMode
    /\ Named("Refresh Dataview") # {} /\ Disabled(TheControl("Refresh Dataview"))
    /\ Disabled(TheControl("Pane"))
    /\ Named("Use workspaces") # {} /\ ~Disabled(TheControl("Use workspaces"))

\* C8: once the change handlers that end in display() have completed, outside
\* workspace mode, "Opening method" is disabled iff openOnStartup is off or
\* Daily Notes' autorun is on, and "Open on startup" iff the autorun is on.
C8_StartupDisabling ==
    (/\ panel.controls # <<>>
     /\ ~RerenderPending
     /\ ~workspacesMode(settings, env))
    => /\ Disabled(TheControl("Opening method"))
            <=> (~settings.openOnStartup \/ env.dailynotesAutorun)
       /\ Disabled(TheControl("Open on startup")) <=> env.dailynotesAutorun

\* "Open on startup" was switched off and its handler has completed:
\* "Opening method" is disabled, "Open on startup" is not.
C8_Witness ==
    /\ events > 0
    /\ pending = <<>>
    /\ ~settings.openOnStartup
    /\ ~env.dailynotesAutorun
    /\ ~panel.workspacesMode
    /\ panel.controls # <<>>
    /\ ~TheControl("Open on startup").on
    /\ Disabled(TheControl("Opening method"))
    /\ ~Disabled(TheControl("Open on startup"))

\* C9: when no handler of the toggle is suspended any more, the last value
\* given to setIcon equals hasRibbonIcon and the last value given to
\* setReversion equals revertView.
C9_CallbackSeesFinalValue ==
    \A cb \in {"setIcon", "setReversion"} :
        LET setting == IF cb = "setIcon" THEN "hasRibbonIcon" ELSE "revertView" IN
        ((\A i \in DOMAIN pending : pending[i].callback # cb) /\ called[cb] # <<>>)
            => called[cb] = <<settings[setting]>>

====
